---------------------------- MODULE Spec2Model ----------------------------
(***************************************************************************)
(* Conway's Game of Life (src/main.py): the simulation state, the          *)
(* operations of the buttons and of the grid, and the main loop that       *)
(* drains the pending pointer events and then steps the grid when playing. *)
(* A QUIT event ends the process and is not modelled.                      *)
(*                                                                         *)
(* The program state is the module-level globals of main.py.  Every        *)
(* program function is a pure operator from a state record to the state    *)
(* record it leaves; the actions apply these operators to the variables.   *)
(***************************************************************************)
EXTENDS Integers, Sequences, FiniteSets, TLC

(***************************************************************************)
(* Bounds of the model.  rows, cols and the generation ceiling are 25, 25  *)
(* and 99999 in main.py (lines 36 and 103); the model keeps their role and *)
(* scales them down.                                                       *)
(***************************************************************************)
rows == 4
cols == 4
\* the ceiling update_grid compares generation_count with (99999 in main.py)
MaxGeneration == 3
\* pointer events the user sends in one run
MaxClicks == 3
\* outcomes of random.choice: the draws repeat with this period over the cells
RandPeriod == 2
\* live cells of the pattern drawn before Play in the playback specification
MaxLive == 3
\* pointer events on the speed buttons in one run of the speed specification
MaxSpeedClicks == 96
\* pointer events in one run of the click specification
MaxProbeClicks == 2

(***************************************************************************)
(* Program constants (main.py lines 28-41, 150, 155).                      *)
(***************************************************************************)
WIDTH == 960
HEIGHT == 720
cell_size == 22
button_width == 82
button_height == 20
margin == 25
base_font_size == 15
InitialSpeed == 5
MaxSpeed == 100
MinSpeed == 1
\* y of the row of main buttons (draw_main_buttons)
MainButtonsY == 50

grid_width == cols * cell_size
grid_height == rows * cell_size
grid_offset_x == (WIDTH - grid_width) \div 2
grid_offset_y == (HEIGHT - grid_height + 15) \div 2

RowRange == 0 .. (rows - 1)
ColRange == 0 .. (cols - 1)
Bit == {0, 1}
GridType == [RowRange -> [ColRange -> Bit]]

\* [[0 for _ in range(cols)] for _ in range(rows)]
EmptyGrid == [row \in RowRange |-> [col \in ColRange |-> 0]]

VARIABLES
    grid,              \* main.py: grid
    initial_grid,      \* main.py: initial_grid
    is_playing,        \* main.py: is_playing
    play_button_text,  \* main.py: play_button_text
    generation_count,  \* main.py: generation_count
    SPEED,             \* main.py: SPEED
    pc,                \* position in the main loop: "events" or "step"
    clicks,            \* pointer events handled so far (bounded by MaxClicks)
    last_ops,          \* history: the operations the last event or step ran
    pre,               \* history: the globals and last_ops before that event or step
    last_edit          \* history: grid right after the last manual toggle

vars == <<grid, initial_grid, is_playing, play_button_text, generation_count,
          SPEED, pc, clicks, last_ops, pre, last_edit>>

\* The globals as one record, with the log of the operations run on it.
State == [grid |-> grid, initial_grid |-> initial_grid,
          is_playing |-> is_playing, play_button_text |-> play_button_text,
          generation_count |-> generation_count, SPEED |-> SPEED,
          ops |-> <<>>]

Op(name, row, col) == [op |-> name, row |-> row, col |-> col]
Log(s, name) == [s EXCEPT !.ops = Append(@, Op(name, -1, -1))]

---------------------------------------------------------------------------
(* update_initial_grid: initial_grid becomes a fresh copy of grid *)
update_initial_grid(s) ==
    [s EXCEPT !.initial_grid =
        [row \in RowRange |-> [col \in ColRange |-> s.grid[row][col]]]]

(* count_neighbors: the offsets (i, j) in loop order, (0, 0) skipped *)
NeighborOffsets ==
    <<<<-1, -1>>, <<-1, 0>>, <<-1, 1>>, <<0, -1>>, <<0, 1>>,
      <<1, -1>>, <<1, 0>>, <<1, 1>>>>

\* a plausible slip: the row is clamped to the grid instead of wrapped
WrapRowClamped(row, i) ==
    IF row + i < 0 THEN 0 ELSE IF row + i > rows - 1 THEN rows - 1 ELSE row + i

\* r = (row + i) % rows
WrapRow(row, i) == (row + i) % rows
\* c = (col + j) % cols
WrapCol(col, j) == (col + j) % cols

\* the cells count_neighbors reads, in loop order
neighbor_reads(row, col) ==
    [k \in 1 .. 8 |-> <<WrapRow(row, NeighborOffsets[k][1]),
                        WrapCol(col, NeighborOffsets[k][2])>>]

RECURSIVE SumReads(_, _, _)
SumReads(g, reads, k) ==
    IF k = 0 THEN 0
    ELSE SumReads(g, reads, k - 1) + g[reads[k][1]][reads[k][2]]

count_neighbors(g, row, col) == SumReads(g, neighbor_reads(row, col), 8)

\* a plausible slip: a dead cell is born with two live neighbours as well
NewCellBirthOnTwo(g, row, col) ==
    LET neighbors == count_neighbors(g, row, col) IN
    IF g[row][col] = 1
    THEN IF neighbors < 2 \/ neighbors > 3 THEN 0 ELSE 1
    ELSE IF neighbors = 2 \/ neighbors = 3 THEN 1 ELSE 0

\* the value update_grid writes to new_grid[row][col]
NewCell(g, row, col) ==
    LET neighbors == count_neighbors(g, row, col) IN
    IF g[row][col] = 1
    THEN IF neighbors < 2 \/ neighbors > 3 THEN 0 ELSE 1
    ELSE IF neighbors = 3 THEN 1 ELSE 0

\* a plausible slip: the cells are rewritten in place, in scan order, so a
\* cell sees the new values of the cells scanned before it
RECURSIVE InPlaceScan(_, _)
InPlaceScan(g, n) ==
    IF n = 0 THEN g
    ELSE LET h == InPlaceScan(g, n - 1)
             row == (n - 1) \div cols
             col == (n - 1) % cols
         IN [h EXCEPT ![row][col] = NewCell(h, row, col)]

NewGridInPlace(g) == InPlaceScan(g, rows * cols)

\* new_grid of update_grid: every cell computed from the grid being replaced
NewGrid(g) == [row \in RowRange |-> [col \in ColRange |-> NewCell(g, row, col)]]

\* a plausible slip: the ceiling is compared with <= instead of <
update_grid_late_ceiling(s) ==
    IF s.generation_count <= MaxGeneration
    THEN Log([s EXCEPT !.grid = NewGrid(s.grid),
                       !.generation_count = @ + 1], "step")
    ELSE Log([s EXCEPT !.is_playing = FALSE,
                       !.play_button_text = "Play"], "halt")

\* a plausible slip: at the ceiling the step is skipped and playback goes on
update_grid_keeps_playing(s) ==
    IF s.generation_count < MaxGeneration
    THEN Log([s EXCEPT !.grid = NewGrid(s.grid),
                       !.generation_count = @ + 1], "step")
    ELSE Log(s, "halt")

\* a plausible slip: at the ceiling the label of the play button is left as it is
update_grid_keeps_label(s) ==
    IF s.generation_count < MaxGeneration
    THEN Log([s EXCEPT !.grid = NewGrid(s.grid),
                       !.generation_count = @ + 1], "step")
    ELSE Log([s EXCEPT !.is_playing = FALSE], "halt")

\* a plausible slip: a step leaves the generation counter as it is
update_grid_no_count(s) ==
    IF s.generation_count < MaxGeneration
    THEN Log([s EXCEPT !.grid = NewGrid(s.grid)], "step")
    ELSE Log([s EXCEPT !.is_playing = FALSE,
                       !.play_button_text = "Play"], "halt")

(* update_grid *)
update_grid(s) ==
    IF s.generation_count < MaxGeneration
    THEN Log([s EXCEPT !.grid = NewGrid(s.grid),
                       !.generation_count = @ + 1], "step")
    ELSE Log([s EXCEPT !.is_playing = FALSE,
                       !.play_button_text = "Play"], "halt")

\* a plausible slip: the generation counter is left as it is
clear_or_reset_grid_keeps_count(s, reset) ==
    [s EXCEPT !.grid = [row \in RowRange |-> [col \in ColRange |->
                            IF reset THEN s.initial_grid[row][col] ELSE 0]],
              !.is_playing = FALSE,
              !.play_button_text = "Play"]

(* clear_or_reset_grid *)
clear_or_reset_grid(s, reset) ==
    [s EXCEPT !.grid = [row \in RowRange |-> [col \in ColRange |->
                            IF reset THEN s.initial_grid[row][col] ELSE 0]],
              !.is_playing = FALSE,
              !.play_button_text = "Play",
              !.generation_count = 0]

\* a plausible slip: clear passes reset=True
clear_grid_restores(s) == Log(clear_or_reset_grid(s, TRUE), "clear")

\* a plausible slip: clear commits the emptied grid to the snapshot
clear_grid_commits(s) ==
    update_initial_grid(Log(clear_or_reset_grid(s, FALSE), "clear"))

(* clear_grid *)
clear_grid(s) == Log(clear_or_reset_grid(s, FALSE), "clear")

(* reset_grid *)
reset_grid(s) == Log(clear_or_reset_grid(s, TRUE), "reset")

\* a plausible slip: randomize commits the new grid to the snapshot, as a
\* manual edit does
randomize_grid_commits(s, choice) ==
    update_initial_grid(
        Log([s EXCEPT !.grid = [row \in RowRange |-> [col \in ColRange |->
                                    choice[row][col]]]], "randomize"))

\* a plausible slip: randomize pauses playback, as clear and reset do
randomize_grid_pauses(s, choice) ==
    Log([s EXCEPT !.grid = [row \in RowRange |-> [col \in ColRange |->
                                choice[row][col]]],
                  !.is_playing = FALSE,
                  !.play_button_text = "Play"], "randomize")

(* randomize_grid: choice[row][col] is what random.choice([0, 1]) returns *)
randomize_grid(s, choice) ==
    Log([s EXCEPT !.grid = [row \in RowRange |-> [col \in ColRange |->
                                choice[row][col]]]], "randomize")

Min(a, b) == IF a < b THEN a ELSE b
Max(a, b) == IF a > b THEN a ELSE b

handle_toggle_speed_increase(s) ==
    Log([s EXCEPT !.SPEED = Min(s.SPEED + 1, MaxSpeed)], "faster")

\* a plausible slip: the lower clamp is 0 instead of 1
handle_toggle_speed_decrease_to_zero(s) ==
    Log([s EXCEPT !.SPEED = Max(s.SPEED - 1, 0)], "slower")

handle_toggle_speed_decrease(s) ==
    Log([s EXCEPT !.SPEED = Max(s.SPEED - 1, MinSpeed)], "slower")

\* a plausible slip: pressing Play restarts the generation counter
toggle_play_restarts_count(s) ==
    LET playing == ~s.is_playing IN
    Log([s EXCEPT !.is_playing = playing,
                  !.play_button_text = IF playing THEN "Pause" ELSE "Play",
                  !.generation_count = 0],
        "play")

(* toggle_play *)
toggle_play(s) ==
    LET playing == ~s.is_playing IN
    Log([s EXCEPT !.is_playing = playing,
                  !.play_button_text = IF playing THEN "Pause" ELSE "Play"],
        "play")

---------------------------------------------------------------------------
(* pygame.Rect(x, y, w, h) and Rect.collidepoint: the right and bottom edges
   are outside the rectangle *)
Rect(x, y, w, h) == [x |-> x, y |-> y, w |-> w, h |-> h]

collidepoint(rect, x, y) ==
    /\ rect.x <= x /\ x < rect.x + rect.w
    /\ rect.y <= y /\ y < rect.y + rect.h

(* draw_buttons: the rectangle of each of the n buttons of a row *)
draw_buttons(n, x_start, y_pos) ==
    [i \in 1 .. n |-> Rect(x_start + (i - 1) * (button_width + margin), y_pos,
                           button_width, button_height)]

(* draw_main_buttons: Play/Pause, Clear, Reset, Randomize *)
draw_main_buttons ==
    LET n == 4
        x_start == (WIDTH - (n * button_width + (n - 1) * margin)) \div 2
    IN draw_buttons(n, x_start, MainButtonsY)

(* draw_speed_buttons: Faster, Slower *)
draw_speed_buttons ==
    LET info_x == grid_offset_x - 150
        info_y_start == grid_offset_y + 3 * (base_font_size + 10) + 20
    IN [i \in 1 .. 2 |-> Rect(info_x, info_y_start + (i - 1) * (button_height + margin),
                              button_width, button_height)]

\* the branch of handle_button_click for main button i (0-based, as enumerate)
MainButtonOp(s, i, choice) ==
    CASE i = 0 -> toggle_play(s)
      [] i = 1 -> clear_grid(s)
      [] i = 2 -> reset_grid(s)
      [] i = 3 -> randomize_grid(s, choice)
      [] OTHER -> s

\* the branch of handle_button_click for speed button i
SpeedButtonOp(s, i) ==
    CASE i = 0 -> handle_toggle_speed_increase(s)
      [] i = 1 -> handle_toggle_speed_decrease(s)
      [] OTHER -> s

\* the first loop of handle_button_click, over the first n main rectangles
RECURSIVE ClickMainButtons(_, _, _, _, _, _)
ClickMainButtons(s, x, y, rects, choice, n) ==
    IF n = 0 THEN s
    ELSE LET t == ClickMainButtons(s, x, y, rects, choice, n - 1) IN
         IF collidepoint(rects[n], x, y) THEN MainButtonOp(t, n - 1, choice) ELSE t

\* the second loop of handle_button_click, over the first n speed rectangles
RECURSIVE ClickSpeedButtons(_, _, _, _, _)
ClickSpeedButtons(s, x, y, rects, n) ==
    IF n = 0 THEN s
    ELSE LET t == ClickSpeedButtons(s, x, y, rects, n - 1) IN
         IF collidepoint(rects[n], x, y) THEN SpeedButtonOp(t, n - 1) ELSE t

(* handle_button_click *)
handle_button_click(s, x, y, button_rects1, speed_button_rects, choice) ==
    ClickSpeedButtons(
        ClickMainButtons(s, x, y, button_rects1, choice, Len(button_rects1)),
        x, y, speed_button_rects, Len(speed_button_rects))

\* a plausible slip: the cell is set alive instead of flipped
FlipCellSetsLive(g, row, col) == [g EXCEPT ![row][col] = 1]

\* a plausible slip: the cell is incremented instead of flipped
FlipCellIncrements(g, row, col) == [g EXCEPT ![row][col] = @ + 1]

\* grid[row][col] = 1 if grid[row][col] == 0 else 0
FlipCell(g, row, col) ==
    [g EXCEPT ![row][col] = IF g[row][col] = 0 THEN 1 ELSE 0]

\* a plausible slip: the snapshot is taken before the cell is flipped
toggle_cell_snapshot_first(s, row, col) ==
    LET t == update_initial_grid(s)
    IN [t EXCEPT !.grid = FlipCell(t.grid, row, col),
                 !.ops = Append(@, Op("toggle", row, col))]

\* a plausible slip: the snapshot is taken only while the game is paused
toggle_cell_snapshot_when_paused(s, row, col) ==
    LET t == [s EXCEPT !.grid = FlipCell(s.grid, row, col),
                       !.ops = Append(@, Op("toggle", row, col))]
    IN IF s.is_playing THEN t ELSE update_initial_grid(t)

\* the grid branch of handle_mouse_click: flip the cell, then update_initial_grid
toggle_cell(s, row, col) ==
    LET t == [s EXCEPT !.grid = FlipCell(s.grid, row, col),
                       !.ops = Append(@, Op("toggle", row, col))]
    IN update_initial_grid(t)

\* a plausible slip: the right and bottom edges of the grid count as inside
handle_mouse_click_inclusive(s, x, y, button_rects1, speed_button_rects, choice) ==
    IF /\ grid_offset_x <= x /\ x <= grid_offset_x + grid_width
       /\ grid_offset_y <= y /\ y <= grid_offset_y + grid_height
    THEN LET col == (x - grid_offset_x) \div cell_size
             row == (y - grid_offset_y) \div cell_size
         IN toggle_cell(s, row, col)
    ELSE handle_button_click(s, x, y, button_rects1, speed_button_rects, choice)

(* handle_mouse_click *)
handle_mouse_click(s, x, y, button_rects1, speed_button_rects, choice) ==
    IF /\ grid_offset_x <= x /\ x < grid_offset_x + grid_width
       /\ grid_offset_y <= y /\ y < grid_offset_y + grid_height
    THEN LET col == (x - grid_offset_x) \div cell_size
             row == (y - grid_offset_y) \div cell_size
         IN toggle_cell(s, row, col)
    ELSE handle_button_click(s, x, y, button_rects1, speed_button_rects, choice)

---------------------------------------------------------------------------
(* Inputs *)

\* a pixel inside cell (row, col)
CellPixel(row, col) ==
    <<grid_offset_x + col * cell_size + cell_size \div 2,
      grid_offset_y + row * cell_size + cell_size \div 2>>

\* the centre pixel of a rectangle
RectCentre(rect) == <<rect.x + rect.w \div 2, rect.y + rect.h \div 2>>

\* the cells the model clicks: the four corners, which are neighbours of each
\* other on the torus, and two inner cells
ClickCells ==
    ({0, rows - 1} \X {0, cols - 1}) \cup {<<1, 1>>, <<1, 2>>}

\* event.pos of the MOUSEBUTTONDOWN events the model sends: a pixel of each
\* cell of ClickCells, the centre of each button, and a pixel that hits nothing
ClickPoints ==
    {CellPixel(cell[1], cell[2]) : cell \in ClickCells}
    \cup {RectCentre(draw_main_buttons[i]) : i \in 1 .. 4}
    \cup {RectCentre(draw_speed_buttons[i]) : i \in 1 .. 2}
    \cup {<<0, 0>>}

\* bit k of mask
BitOf(mask, k) == (mask \div (2 ^ k)) % 2

\* the results of random.choice([0, 1]) over the cells: the draws of one call
\* of randomize_grid repeat with period RandPeriod in row-major order
RandomChoices ==
    {[row \in RowRange |-> [col \in ColRange |->
         BitOf(mask, (row * cols + col) % RandPeriod)]] :
     mask \in 0 .. (2 ^ RandPeriod - 1)}

\* random.choice is called only when the click lands on Randomize
ChoicesAt(x, y) ==
    IF collidepoint(draw_main_buttons[4], x, y) THEN RandomChoices ELSE {EmptyGrid}

---------------------------------------------------------------------------
(* The main loop *)

\* the globals after an operator has run
Store(s) ==
    /\ grid' = s.grid
    /\ initial_grid' = s.initial_grid
    /\ is_playing' = s.is_playing
    /\ play_button_text' = s.play_button_text
    /\ generation_count' = s.generation_count
    /\ SPEED' = s.SPEED

HasToggle(ops) == \E k \in 1 .. Len(ops) : ops[k].op = "toggle"

\* the history variables after an event or a step that ran the operations s.ops
Record(s) ==
    /\ last_ops' = s.ops
    /\ pre' = [State EXCEPT !.ops = last_ops]
    /\ last_edit' = IF HasToggle(s.ops) THEN s.grid ELSE last_edit

Init ==
    /\ grid = EmptyGrid
    /\ initial_grid = EmptyGrid
    /\ is_playing = FALSE
    /\ play_button_text = "Play"
    /\ generation_count = 0
    /\ SPEED = InitialSpeed
    /\ pc = "events"
    /\ clicks = 0
    /\ last_ops = <<>>
    /\ pre = State
    /\ last_edit = EmptyGrid

\* one MOUSEBUTTONDOWN event of the event loop
MouseButtonDown ==
    /\ pc = "events"
    /\ clicks < MaxClicks
    /\ \E p \in ClickPoints : \E choice \in ChoicesAt(p[1], p[2]) :
         \E s \in {handle_mouse_click(State, p[1], p[2], draw_main_buttons,
                                       draw_speed_buttons, choice)} :
            Store(s) /\ Record(s)
    /\ clicks' = clicks + 1
    /\ pc' = pc

\* pygame.event.get() is drained
EndEvents ==
    /\ pc = "events"
    /\ pc' = "step"
    /\ UNCHANGED <<grid, initial_grid, is_playing, play_button_text,
                   generation_count, SPEED, clicks, last_ops, pre, last_edit>>

\* a plausible slip: update_grid is called whether the game is playing or not
StepPhaseUnconditional ==
    /\ pc = "step"
    /\ pc' = "events"
    /\ \E s \in {update_grid(State)} : Store(s) /\ Record(s)
    /\ UNCHANGED clicks

\* if is_playing: update_grid(); then the rest of the frame and the next one
StepPhase ==
    /\ pc = "step"
    /\ pc' = "events"
    /\ IF is_playing
       THEN \E s \in {update_grid(State)} : Store(s) /\ Record(s)
       ELSE UNCHANGED <<grid, initial_grid, is_playing, play_button_text,
                        generation_count, SPEED, last_ops, pre, last_edit>>
    /\ UNCHANGED clicks

Next == MouseButtonDown \/ EndEvents \/ StepPhase

Spec == Init /\ [][Next]_vars

---------------------------------------------------------------------------
(* Playback: the user has drawn a pattern by hand, has pressed Play, and
   sends no further event.  The pattern has at most MaxLive cells, all in the
   block of one cell and its eight neighbours, or is any pattern of the block
   of the corner cell (0, 0), which lies across both edges. *)

Cells == RowRange \X ColRange

\* a cell and its eight neighbours
Block(cell) ==
    {WrapRow(cell[1], i) : i \in {-1, 0, 1}} \X {WrapCol(cell[2], j) : j \in {-1, 0, 1}}

\* the subsets of B of at most k cells
RECURSIVE SubsetsUpTo(_, _)
SubsetsUpTo(B, k) ==
    IF k = 0 THEN {{}}
    ELSE LET smaller == SubsetsUpTo(B, k - 1) IN
         smaller \cup {S \cup {cell} : S \in smaller, cell \in B}

\* the patterns drawn before Play
DrawnPatterns ==
    UNION {SubsetsUpTo(Block(cell), MaxLive) : cell \in Cells}
    \cup SUBSET Block(<<0, 0>>)

\* the grid whose live cells are those of S
GridOf(S) ==
    [row \in RowRange |-> [col \in ColRange |-> IF <<row, col>> \in S THEN 1 ELSE 0]]

InitPlay ==
    /\ \E S \in DrawnPatterns :
         /\ grid = GridOf(S)
         /\ initial_grid = GridOf(S)
         /\ last_edit = GridOf(S)
         /\ clicks = Cardinality(S) + 1
    /\ is_playing = TRUE
    /\ play_button_text = "Pause"
    /\ generation_count = 0
    /\ SPEED = InitialSpeed
    /\ pc = "events"
    /\ last_ops = <<Op("play", -1, -1)>>
    /\ pre = [State EXCEPT !.is_playing = FALSE, !.play_button_text = "Play"]

NextPlay == EndEvents \/ StepPhase

SpecPlay == InitPlay /\ [][NextPlay]_vars

\* the loop is `while True` and no call in it blocks for ever: it keeps iterating
SpecPlayFair == SpecPlay /\ WF_vars(NextPlay)

---------------------------------------------------------------------------
(* Speed: from startup the user clicks only Faster and Slower, often enough
   to run into both clamps. *)

\* event.pos of the events of the speed specification: the centres of the
\* Faster and Slower buttons
SpeedClickPoints == {RectCentre(draw_speed_buttons[i]) : i \in 1 .. 2}

\* one MOUSEBUTTONDOWN event on a speed button
SpeedButtonDown ==
    /\ pc = "events"
    /\ clicks < MaxSpeedClicks
    /\ \E p \in SpeedClickPoints :
         \E s \in {handle_mouse_click(State, p[1], p[2], draw_main_buttons,
                                       draw_speed_buttons, EmptyGrid)} :
            Store(s) /\ Record(s)
    /\ clicks' = clicks + 1
    /\ pc' = pc

NextSpeed == SpeedButtonDown \/ EndEvents \/ StepPhase

SpecSpeed == Init /\ [][NextSpeed]_vars

---------------------------------------------------------------------------
(* Clicks: from startup the user clicks on the pixels at and next to the
   edges of the grid, of its first cell and of every button. *)

\* the first and last coordinate of an extent of len pixels from lo, and the
\* coordinates right before and right after it
EdgeValues(lo, len) == {lo - 1, lo, lo + len - 1, lo + len}

\* the pixels at the four corners of a rectangle, inside and outside of it,
\* and at its edges
EdgePixels(rect) == EdgeValues(rect.x, rect.w) \X EdgeValues(rect.y, rect.h)

\* event.pos of the events of the click specification: the edge pixels of the
\* grid, of its first cell and of the six buttons
ProbePoints ==
    EdgePixels(Rect(grid_offset_x, grid_offset_y, grid_width, grid_height))
    \cup EdgePixels(Rect(grid_offset_x, grid_offset_y, cell_size, cell_size))
    \cup UNION {EdgePixels(draw_main_buttons[i]) : i \in 1 .. 4}
    \cup UNION {EdgePixels(draw_speed_buttons[i]) : i \in 1 .. 2}

\* one MOUSEBUTTONDOWN event at a probe pixel
ProbeButtonDown ==
    /\ pc = "events"
    /\ clicks < MaxProbeClicks
    /\ \E p \in ProbePoints : \E choice \in ChoicesAt(p[1], p[2]) :
         \E s \in {handle_mouse_click(State, p[1], p[2], draw_main_buttons,
                                       draw_speed_buttons, choice)} :
            Store(s) /\ Record(s)
    /\ clicks' = clicks + 1
    /\ pc' = pc

NextClick == ProbeButtonDown \/ EndEvents \/ StepPhase

SpecClick == Init /\ [][NextClick]_vars

---------------------------------------------------------------------------
(* Properties *)

\* the single operation the last event or step ran, "" when it ran none or several
LastOp == IF Len(last_ops) = 1 THEN last_ops[1].op ELSE ""

\* this transition is a pointer event that ran exactly the operation name
Ran(name) ==
    /\ clicks' = clicks + 1
    /\ Len(last_ops') = 1
    /\ last_ops'[1].op = name

\* this transition is a step of the grid
Stepped == generation_count' = generation_count + 1

\* distance between indexes a and b on a ring of n
RingDist(a, b, n) == IF (a - b) % n < (b - a) % n THEN (a - b) % n ELSE (b - a) % n

\* the cells around a cell on the torus, the cell itself excluded
TorusNeighbours[cell \in Cells] ==
    {other \in Cells :
        /\ other # cell
        /\ RingDist(other[1], cell[1], rows) <= 1
        /\ RingDist(other[2], cell[2], cols) <= 1}

\* the live cells of g around (row, col)
LiveAround(g, row, col) ==
    {cell \in TorusNeighbours[<<row, col>>] : g[cell[1]][cell[2]] = 1}

\* the rule of the Game of Life for one cell of generation g
Conway(g, row, col) ==
    LET n == Cardinality(LiveAround(g, row, col)) IN
    IF g[row][col] = 1
    THEN IF n = 2 \/ n = 3 THEN 1 ELSE 0
    ELSE IF n = 3 THEN 1 ELSE 0

(* C1: a step of the grid below the ceiling sets every cell from the previous
   generation alone: a live cell with 2 or 3 live neighbours is 1, any other
   live cell is 0, a dead cell with exactly 3 live neighbours is 1, any other
   dead cell is 0. *)
C1_StepFromPreviousGeneration ==
    [][Stepped =>
         \A row \in RowRange, col \in ColRange :
            grid'[row][col] = Conway(grid, row, col)]_vars

\* a step has run in which a live cell survived, one died of overpopulation,
\* one died of underpopulation and a dead cell was born
C1_Witness ==
    /\ LastOp = "step"
    /\ \E a \in Cells :
         /\ pre.grid[a[1]][a[2]] = 1
         /\ Cardinality(LiveAround(pre.grid, a[1], a[2])) \in {2, 3}
         /\ grid[a[1]][a[2]] = 1
    /\ \E b \in Cells :
         /\ pre.grid[b[1]][b[2]] = 1
         /\ Cardinality(LiveAround(pre.grid, b[1], b[2])) > 3
         /\ grid[b[1]][b[2]] = 0
    /\ \E c \in Cells :
         /\ pre.grid[c[1]][c[2]] = 1
         /\ Cardinality(LiveAround(pre.grid, c[1], c[2])) < 2
         /\ grid[c[1]][c[2]] = 0
    /\ \E d \in Cells :
         /\ pre.grid[d[1]][d[2]] = 0
         /\ Cardinality(LiveAround(pre.grid, d[1], d[2])) = 3
         /\ grid[d[1]][d[2]] = 1

\* the offsets (dr, dc) of the eight neighbours
EightOffsets == ({-1, 0, 1} \X {-1, 0, 1}) \ {<<0, 0>>}

(* C2: for every cell, corners and edges included, count_neighbors reads only
   cells of the grid, returns the sum of the 8 cells at ((row+dr) mod rows,
   (col+dc) mod cols), a value in 0..8, and the neighbours of (0, 0) include
   (rows-1, cols-1). *)
C2_CountNeighborsWraps ==
    /\ \A row \in RowRange, col \in ColRange :
         LET reads == neighbor_reads(row, col)
             n == count_neighbors(grid, row, col)
         IN /\ \A k \in 1 .. 8 : reads[k] \in Cells
            /\ n = Cardinality({d \in EightOffsets :
                       grid[(row + d[1]) % rows][(col + d[2]) % cols] = 1})
            /\ n \in 0 .. 8
    /\ \E k \in 1 .. 8 : neighbor_reads(0, 0)[k] = <<rows - 1, cols - 1>>

\* a step has run in which the dead corner (0, 0) was born from its three
\* neighbours across the edges
C2_Witness ==
    /\ LastOp = "step"
    /\ pre.grid[0][0] = 0
    /\ pre.grid[rows - 1][cols - 1] = 1
    /\ pre.grid[rows - 1][0] = 1
    /\ pre.grid[0][cols - 1] = 1
    /\ count_neighbors(pre.grid, 0, 0) = 3
    /\ grid[0][0] = 1

\* this transition is the main loop calling update_grid
StepAttempt == pc = "step" /\ is_playing

(* C3: a step taken below the ceiling adds exactly 1 to the generation
   counter; a step attempted at the ceiling leaves grid and counter as they
   are and pauses playback; the counter is always in 0..ceiling. *)
C3_GenerationCounter ==
    /\ [](generation_count \in 0 .. MaxGeneration)
    /\ [][StepAttempt =>
            IF generation_count < MaxGeneration
            THEN generation_count' = generation_count + 1
            ELSE /\ grid' = grid
                 /\ generation_count' = generation_count
                 /\ is_playing' = FALSE]_vars

\* playback ran into the ceiling: the step was skipped and playback paused
C3_Witness ==
    /\ LastOp = "halt"
    /\ pre.is_playing
    /\ pre.generation_count = MaxGeneration
    /\ generation_count = MaxGeneration
    /\ grid = pre.grid
    /\ ~is_playing

(* C4: clear sets every cell of the grid to 0, the generation counter to 0
   and the play state to paused. *)
C4_Clear ==
    [][Ran("clear") =>
         /\ \A row \in RowRange, col \in ColRange : grid'[row][col] = 0
         /\ generation_count' = 0
         /\ is_playing' = FALSE]_vars

\* clear has run on a grid with live cells, during playback, after a step
C4_Witness ==
    /\ LastOp = "clear"
    /\ pre.is_playing
    /\ pre.generation_count > 0
    /\ pre.grid # EmptyGrid
    /\ grid = EmptyGrid
    /\ generation_count = 0
    /\ ~is_playing

(* C5: reset sets every cell of the grid to the cell of the Initial Snapshot,
   the generation counter to 0 and the play state to paused. *)
C5_Reset ==
    [][Ran("reset") =>
         /\ \A row \in RowRange, col \in ColRange :
               grid'[row][col] = initial_grid[row][col]
         /\ generation_count' = 0
         /\ is_playing' = FALSE]_vars

\* reset has run during playback, after a step, on a grid that had left the
\* snapshot, and a snapshot with live cells
C5_Witness ==
    /\ LastOp = "reset"
    /\ pre.is_playing
    /\ pre.generation_count > 0
    /\ pre.grid # pre.initial_grid
    /\ pre.initial_grid # EmptyGrid
    /\ grid = pre.initial_grid
    /\ generation_count = 0
    /\ ~is_playing

(* C6: a reset, whatever came before it since the last manual toggle (one or
   more randomize calls, steps, clears, play toggles, speed changes), leaves
   the grid as it stood right after that toggle (the all-dead grid when there
   was none), not the randomized grid. *)
C6_ResetAfterRandomize ==
    [][Ran("reset") => grid' = last_edit]_vars

\* a reset has followed a randomize that had changed a hand-drawn grid
C6_Witness ==
    /\ LastOp = "reset"
    /\ Len(pre.ops) = 1
    /\ pre.ops[1].op = "randomize"
    /\ last_edit # EmptyGrid
    /\ pre.grid # last_edit
    /\ grid = last_edit

(* C7: a manual toggle at (row, col) flips that cell, leaves every other cell
   as it is, and leaves the Initial Snapshot equal to the grid, also while
   playing and when the grid had left the snapshot. *)
C7_Toggle ==
    [][Ran("toggle") =>
         LET row == last_ops'[1].row
             col == last_ops'[1].col
         IN /\ row \in RowRange
            /\ col \in ColRange
            /\ grid'[row][col] = 1 - grid[row][col]
            /\ \A r \in RowRange, c \in ColRange :
                  <<r, c>> # <<row, col>> => grid'[r][c] = grid[r][c]
            /\ initial_grid' = grid']_vars

\* a cell was toggled during playback on a grid that had left the snapshot
C7_Witness ==
    /\ LastOp = "toggle"
    /\ pre.is_playing
    /\ pre.grid # pre.initial_grid
    /\ grid # pre.grid
    /\ initial_grid = grid

\* this transition toggles the cell the event before it toggled, with no
\* operation or step in between; pre is then the state before the first toggle
SecondToggle ==
    /\ LastOp = "toggle"
    /\ Ran("toggle")
    /\ last_ops' = last_ops

(* C8: toggling the same cell twice in succession restores the cell and the
   whole grid to the values before the first toggle. *)
C8_DoubleToggleRestoresGrid ==
    [][SecondToggle =>
         /\ grid'[last_ops[1].row][last_ops[1].col] =
               pre.grid[last_ops[1].row][last_ops[1].col]
         /\ grid' = pre.grid]_vars

\* the same cell has been toggled twice in succession on a grid with live cells
C8_Witness ==
    /\ LastOp = "toggle"
    /\ pre.ops = last_ops
    /\ grid # EmptyGrid
    /\ grid # pre.grid

(* C9 as stated: toggling the same cell twice in succession leaves the Initial
   Snapshot equal to the snapshot before the first toggle. *)
C9_DoubleToggleKeepsSnapshot ==
    [][SecondToggle => initial_grid' = pre.initial_grid]_vars

(* C9 amended: toggling the same cell twice in succession leaves the Initial
   Snapshot equal to the grid as it was before the first toggle, so a reset
   right after restores that grid. *)
C9_DoubleToggleSnapshotIsGrid ==
    [][SecondToggle =>
         /\ initial_grid' = pre.grid
         /\ reset_grid([State EXCEPT !.grid = grid',
                                     !.initial_grid = initial_grid']).grid
               = pre.grid]_vars

\* the same cell has been toggled twice right after a randomize, the first
\* event of the run: the snapshot before the first toggle was the all-dead
\* grid, the grid a randomized one
C9_Witness ==
    /\ LastOp = "toggle"
    /\ pre.ops = last_ops
    /\ clicks = 3
    /\ grid \in RandomChoices \ {EmptyGrid}
    /\ initial_grid = grid

(* C10: randomize sets every cell to 0 or 1, to the values drawn, and leaves
   the play state, the generation counter and the Initial Snapshot as they
   are. *)
C10_Randomize ==
    /\ [](\A choice \in RandomChoices :
             randomize_grid(State, choice).grid = choice)
    /\ [][Ran("randomize") =>
            /\ grid' \in GridType
            /\ is_playing' = is_playing
            /\ generation_count' = generation_count
            /\ initial_grid' = initial_grid]_vars

\* randomize has run during playback, after a step, with a hand-drawn
\* snapshot, and has drawn a grid with live and dead cells
C10_Witness ==
    /\ LastOp = "randomize"
    /\ pre.is_playing
    /\ pre.generation_count > 0
    /\ is_playing
    /\ generation_count = pre.generation_count
    /\ initial_grid # EmptyGrid
    /\ initial_grid = pre.initial_grid
    /\ grid # pre.grid
    /\ \E a, b \in Cells : grid[a[1]][a[2]] = 1 /\ grid[b[1]][b[2]] = 0

(* C11: toggle_play flips the play state and leaves the grid, the generation
   counter, the Initial Snapshot and the speed as they are. *)
C11_TogglePlay ==
    [][Ran("play") =>
         /\ is_playing' = ~is_playing
         /\ grid' = grid
         /\ generation_count' = generation_count
         /\ initial_grid' = initial_grid
         /\ SPEED' = SPEED]_vars

\* playback of a hand-drawn grid was paused by the Play/Pause button after a
\* step had been taken
C11_Witness ==
    /\ LastOp = "play"
    /\ pre.is_playing
    /\ ~is_playing
    /\ pre.generation_count > 0
    /\ generation_count = pre.generation_count
    /\ initial_grid # EmptyGrid
    /\ grid = pre.grid
    /\ grid # initial_grid

\* the globals a speed change has to leave alone are unchanged
SpeedFrame ==
    /\ grid' = grid
    /\ initial_grid' = initial_grid
    /\ generation_count' = generation_count
    /\ is_playing' = is_playing

(* C12: the speed is always an integer in 1..100 and is 5 before the first
   event; Faster adds 1 unless the speed is 100, and then leaves it 100;
   Slower subtracts 1 unless the speed is 1, and then leaves it 1; both leave
   the grid, the Initial Snapshot, the generation counter and the play state
   as they are. *)
C12_SpeedRange ==
    /\ [](SPEED \in 1 .. 100)
    /\ [](clicks = 0 => SPEED = 5)
    /\ [][Ran("faster") =>
            /\ SPEED' = IF SPEED = 100 THEN 100 ELSE SPEED + 1
            /\ SpeedFrame]_vars
    /\ [][Ran("slower") =>
            /\ SPEED' = IF SPEED = 1 THEN 1 ELSE SPEED - 1
            /\ SpeedFrame]_vars

\* Faster was clicked at speed 100, reached from 5 by clicks alone, and left
\* it at 100
C12_Witness ==
    /\ LastOp = "faster"
    /\ pre.SPEED = 100
    /\ SPEED = 100
    /\ clicks = MaxSpeedClicks

\* the horizontal blinker centred on (r, c): (r, c-1), (r, c), (r, c+1)
BlinkerRow(r, c) == {<<r, (c - 1) % cols>>, <<r, c>>, <<r, (c + 1) % cols>>}

\* the vertical blinker centred on (r, c): (r-1, c), (r, c), (r+1, c)
BlinkerColumn(r, c) == {<<(r - 1) % rows, c>>, <<r, c>>, <<(r + 1) % rows, c>>}

(* C13: for every position (r, c) of the torus, a step from the grid whose
   only live cells are the row (r, c-1), (r, c), (r, c+1) yields exactly the
   column (r-1, c), (r, c), (r+1, c), and the step after that yields the row
   again. *)
C13_BlinkerPeriodTwo ==
    [][Stepped =>
         \A r \in RowRange, c \in ColRange :
            LET across == GridOf(BlinkerRow(r, c))
                down == GridOf(BlinkerColumn(r, c))
            IN /\ grid = across => grid' = down
               /\ (LastOp = "step" /\ pre.grid = across /\ grid = down)
                     => grid' = across]_vars

\* the blinker centred on the corner (0, 0), which lies across both edges,
\* has been stepped twice and is the row again
C13_Witness ==
    /\ LastOp = "step"
    /\ generation_count = 2
    /\ initial_grid = GridOf(BlinkerRow(0, 0))
    /\ pre.grid = GridOf(BlinkerColumn(0, 0))
    /\ grid = GridOf(BlinkerRow(0, 0))
    /\ Cardinality(BlinkerRow(0, 0) \cup BlinkerColumn(0, 0)) = 5

\* the generation counter has reached the ceiling
AtCeiling == generation_count = MaxGeneration

(* C14: while the generation counter is at the ceiling, a step attempt leaves
   grid and counter as they are and pauses playback, so that playback is
   paused at the end of every loop iteration, a Play click in that iteration
   notwithstanding; the counter leaves the ceiling only by a clear or a reset,
   and the grid changes only by a manual toggle, a randomize, a clear or a
   reset. *)
C14_CeilingHalts ==
    /\ [][AtCeiling /\ StepAttempt =>
            /\ grid' = grid
            /\ generation_count' = generation_count
            /\ is_playing' = FALSE]_vars
    /\ [][AtCeiling /\ pc = "step" => is_playing' = FALSE]_vars
    /\ [][AtCeiling /\ generation_count' # generation_count =>
            Ran("clear") \/ Ran("reset")]_vars
    /\ [][AtCeiling /\ grid' # grid =>
            \/ Ran("toggle") \/ Ran("randomize")
            \/ Ran("clear") \/ Ran("reset")]_vars

\* Play was pressed at the ceiling, after playback had run into it, and the
\* step attempt of the same loop iteration has paused playback again
C14_Witness ==
    /\ LastOp = "halt"
    /\ Len(pre.ops) = 1
    /\ pre.ops[1].op = "play"
    /\ pre.generation_count = MaxGeneration
    /\ pre.is_playing
    /\ ~is_playing
    /\ grid = pre.grid
    /\ generation_count = MaxGeneration

(* C15: the Initial Snapshot changes only in a manual toggle of a cell: a
   step, a clear, a reset, a randomize, a Play/Pause click, a speed change and
   a click that hits nothing leave it as it is; it is always the grid as it
   stood right after the last manual toggle, which a reset after a clear
   therefore restores. *)
C15_SnapshotOnlyOnToggle ==
    /\ [](initial_grid = last_edit)
    /\ [][initial_grid' # initial_grid => Ran("toggle")]_vars
    /\ [][(LastOp = "clear" /\ Ran("reset")) => grid' = last_edit]_vars

\* a reset right after a clear has restored a hand-drawn grid with live cells
C15_Witness ==
    /\ LastOp = "reset"
    /\ Len(pre.ops) = 1
    /\ pre.ops[1].op = "clear"
    /\ pre.grid = EmptyGrid
    /\ pre.initial_grid # EmptyGrid
    /\ initial_grid = pre.initial_grid
    /\ grid = initial_grid

(* C16: in every reachable state the grid and the Initial Snapshot both have
   exactly rows rows of exactly cols cells, and every cell of both is 0 or 1. *)
C16_GridShape ==
    /\ DOMAIN grid = 0 .. (rows - 1)
    /\ DOMAIN initial_grid = 0 .. (rows - 1)
    /\ \A row \in 0 .. (rows - 1) :
         /\ DOMAIN grid[row] = 0 .. (cols - 1)
         /\ DOMAIN initial_grid[row] = 0 .. (cols - 1)
         /\ \A col \in 0 .. (cols - 1) :
              /\ grid[row][col] \in {0, 1}
              /\ initial_grid[row][col] \in {0, 1}

\* a cell has been toggled after a step had taken the grid away from the
\* snapshot, and grid and snapshot have live and dead cells
C16_Witness ==
    /\ LastOp = "toggle"
    /\ pre.generation_count > 0
    /\ pre.grid # pre.initial_grid
    /\ initial_grid = grid
    /\ \E a, b \in Cells : grid[a[1]][a[2]] = 1 /\ grid[b[1]][b[2]] = 0

\* the globals of the program are left as they are
GlobalsUnchanged ==
    UNCHANGED <<grid, initial_grid, is_playing, play_button_text,
                generation_count, SPEED>>

\* pointer events are applied only in the event phase of an iteration, one
\* after the other, and none of them steps the grid; a step is taken only in
\* the step phase, which ends the iteration
EventsThenStep ==
    /\ clicks' # clicks =>
          pc = "events" /\ pc' = "events" /\ clicks' = clicks + 1 /\ ~Stepped
    /\ Stepped => pc = "step"
    /\ pc = "step" => pc' = "events" /\ clicks' = clicks

(* C17 as stated: each loop iteration applies the pending pointer events first
   and then takes at most one step, and it takes the step if and only if the
   play state is playing after its events. *)
C17_StepIffPlaying ==
    [][/\ EventsThenStep
       /\ pc = "step" => (Stepped <=> is_playing)]_vars

(* C17 amended: each loop iteration applies the pending pointer events first
   and then calls update_grid at most once, if and only if the play state is
   playing after its events; the call takes a step if and only if the
   generation counter is below the ceiling and otherwise only pauses; an
   iteration that ends paused changes nothing after its events. *)
C17_StepIffPlayingBelowCeiling ==
    [][/\ EventsThenStep
       /\ pc = "step" =>
            /\ Stepped <=> (is_playing /\ generation_count < MaxGeneration)
            /\ Stepped => grid' = NewGrid(grid)
            /\ (is_playing /\ generation_count >= MaxGeneration) =>
                  /\ is_playing' = FALSE
                  /\ UNCHANGED <<grid, initial_grid, generation_count, SPEED>>
            /\ ~is_playing => GlobalsUnchanged]_vars

\* a Play click on a hand-drawn grid was followed by a step in the same loop
\* iteration, after another event of that iteration or an earlier one
C17_Witness ==
    /\ LastOp = "step"
    /\ Len(pre.ops) = 1
    /\ pre.ops[1].op = "play"
    /\ pre.generation_count = 0
    /\ generation_count = 1
    /\ pc = "events"
    /\ clicks >= 2
    /\ pre.grid # EmptyGrid
    /\ grid # pre.grid

\* the pixel rectangle of the grid
GridRect == Rect(grid_offset_x, grid_offset_y, grid_width, grid_height)

\* the six buttons: rectangle and the operation the button stands for
Buttons ==
    <<[rect |-> draw_main_buttons[1], op |-> "play"],
      [rect |-> draw_main_buttons[2], op |-> "clear"],
      [rect |-> draw_main_buttons[3], op |-> "reset"],
      [rect |-> draw_main_buttons[4], op |-> "randomize"],
      [rect |-> draw_speed_buttons[1], op |-> "faster"],
      [rect |-> draw_speed_buttons[2], op |-> "slower"]>>

\* rectangles a and b have a pixel in common
Overlap(a, b) ==
    /\ a.x < b.x + b.w /\ b.x < a.x + a.w
    /\ a.y < b.y + b.h /\ b.y < a.y + a.h

\* pixel (x, y) is inside the rectangle
Inside(rect, x, y) ==
    /\ x \in rect.x .. (rect.x + rect.w - 1)
    /\ y \in rect.y .. (rect.y + rect.h - 1)

\* what the operation of a button leaves of state s
ButtonResult(s, op, choice) ==
    CASE op = "play" -> toggle_play(s)
      [] op = "clear" -> clear_grid(s)
      [] op = "reset" -> reset_grid(s)
      [] op = "randomize" -> randomize_grid(s, choice)
      [] op = "faster" -> handle_toggle_speed_increase(s)
      [] op = "slower" -> handle_toggle_speed_decrease(s)

(* C18: the six button rectangles are pairwise disjoint and disjoint from the
   grid rectangle, and a click at pixel (x, y), in any state in which the loop
   handles events, runs at most one operation: in the grid rectangle it toggles the cell ((y - grid_offset_y) div cell_size,
   (x - grid_offset_x) div cell_size), which is a cell of the grid, and runs
   no button; in a button rectangle it runs the operation of that button and
   nothing else; anywhere else it changes nothing. *)
C18_ClickDispatch ==
    /\ \A i, j \in 1 .. 6 : i # j => ~Overlap(Buttons[i].rect, Buttons[j].rect)
    /\ \A i \in 1 .. 6 : ~Overlap(Buttons[i].rect, GridRect)
    /\ pc = "events" =>
         \A p \in ProbePoints : \A choice \in ChoicesAt(p[1], p[2]) :
         \A s \in {handle_mouse_click(State, p[1], p[2], draw_main_buttons,
                                       draw_speed_buttons, choice)} :
            /\ Len(s.ops) <= 1
            /\ IF Inside(GridRect, p[1], p[2])
               THEN \E row \in {(p[2] - grid_offset_y) \div cell_size} :
                    \E col \in {(p[1] - grid_offset_x) \div cell_size} :
                       /\ row \in 0 .. (rows - 1)
                       /\ col \in 0 .. (cols - 1)
                       /\ s.ops = <<Op("toggle", row, col)>>
                       /\ s.grid = [grid EXCEPT ![row][col] = 1 - @]
                       /\ s.is_playing = is_playing
                       /\ s.generation_count = generation_count
                       /\ s.SPEED = SPEED
               ELSE \E hit \in {{i \in 1 .. 6 : Inside(Buttons[i].rect, p[1], p[2])}} :
                       IF hit # {}
                       THEN \A i \in hit :
                               s = ButtonResult(State, Buttons[i].op, choice)
                       ELSE s = State

\* the first click of a run, on the last pixel of the grid rectangle, has
\* toggled the last cell of the grid
C18_Witness ==
    /\ clicks = 1
    /\ last_ops = <<Op("toggle", rows - 1, cols - 1)>>
    /\ grid[rows - 1][cols - 1] = 1
    /\ Cardinality({cell \in Cells : grid[cell[1]][cell[2]] = 1}) = 1
    /\ <<grid_offset_x + grid_width - 1, grid_offset_y + grid_height - 1>> \in ProbePoints

(* C19: in every reachable state the label of the play button is "Pause" if
   the game is playing and "Play" if it is not. *)
C19_PlayLabel ==
    /\ is_playing \in BOOLEAN
    /\ play_button_text \in {"Play", "Pause"}
    /\ play_button_text = "Pause" <=> is_playing = TRUE
    /\ play_button_text = "Play" <=> is_playing = FALSE

\* the label was "Pause" during playback and is "Play" again after the step
\* attempt at the ceiling has paused it
C19_Witness ==
    /\ LastOp = "halt"
    /\ pre.is_playing
    /\ pre.play_button_text = "Pause"
    /\ ~is_playing
    /\ play_button_text = "Play"
    /\ clicks >= 1

(* C20: with no further user input and a loop that keeps iterating, a playing
   game is eventually paused with the generation counter at the ceiling; it
   is paused only by a step attempt at the ceiling, never below it. *)
C20_EventuallyPausedAtCeiling ==
    /\ is_playing ~> (~is_playing /\ generation_count = MaxGeneration)
    /\ [][(is_playing /\ ~is_playing') =>
            /\ generation_count = MaxGeneration
            /\ generation_count' = MaxGeneration]_vars

\* playback of a pattern that was still changing has paused on its own, with
\* the counter at the ceiling after the last step
C20_Witness ==
    /\ LastOp = "halt"
    /\ ~is_playing
    /\ generation_count = MaxGeneration
    /\ Len(pre.ops) = 1
    /\ pre.ops[1].op = "step"
    /\ grid # initial_grid
    /\ grid # EmptyGrid
    /\ pc = "events"

=============================================================================
